---- MODULE Spec2Model ----
(***************************************************************************)
(* Model of src/realtime_benchmark.py: the producer/consumer throughput     *)
(* pipeline of RealtimeBenchmark.  One Producer thread                      *)
(* (submit_transactions), NumThreads worker threads                         *)
(* (transaction_processor) and the main thread (run_benchmark, the SIGINT   *)
(* handler, cleanup) share tx_queue, result_queue, running and the          *)
(* throughput counters.                                                     *)
(*                                                                          *)
(* Time is counted in ticks.  Every time.time() difference the program      *)
(* computes is kept as a timer that Tick advances: since_batch is           *)
(* time.time() - last_batch_time, since_update is                           *)
(* time.time() - last_tps_update.  The 0.0001 s polling sleeps are shorter  *)
(* than one tick: such a sleep is a step of its own during which time may   *)
(* or may not pass.  No thread is bound to make a step within any number    *)
(* of ticks, so a join with a timeout may return before its thread is done. *)
(*                                                                          *)
(* Spec is the pipeline when nothing raises.  HashFaultSpec adds digests    *)
(* that raise in process_transaction, FaultSpec exceptions anywhere in the  *)
(* loop bodies of the threads.  SamplerSpec is the animation of the main    *)
(* thread (update_plot), which shares only current_tps with the pipeline.   *)
(* ReportSpec starts the Producer at the TPS report with any count and      *)
(* window.                                                                  *)
(***************************************************************************)
EXTENDS Integers, Sequences, FiniteSets, TLC

(* ---------------- bounds of the model ---------------- *)

\* number of work items the Producer may generate in one run
MaxGen == 4

\* longest time, in ticks, from one TPS report to the end of a later batch
MaxWindow == 3

\* number of exceptions the loops of the threads may raise in one run
MaxFaults == 1

\* number of frames the animation draws in one run
MaxFrames == 4

\* largest accumulated_tx a report is computed from
MaxCount == 12

\* longest window, in ticks, a report is computed from
MaxReportWindow == 5

(* ---------------- program parameters, scaled ---------------- *)

\* params['num_threads'] = psutil.cpu_count()
NumThreads == 2

\* params['batch_size']
BatchSize == 2

\* queue.Queue(maxsize=...)
QueueCap == 2

\* batch_interval = 1.0 / (target_tps / batch_size), in ticks
BatchInterval == 1

\* the 0.1 s TPS window, in ticks
TpsWindow == 2

\* 0.1 s is TpsWindow ticks
TicksPerSecond == 10 * TpsWindow

Workers == 1..NumThreads

\* self.max_points
MaxPoints == 2

\* values psutil.cpu_percent() may return
CpuReadings == {10, 20}

\* values psutil.virtual_memory().percent may return
MemReadings == {50}

\* the outcome of a psutil read that raises, no percentage
Raises == -1

\* values the Producer may have stored in self.current_tps when a frame is drawn
TpsReadings == {0, 10}

VARIABLES
    running,             \* self.running
    tx_queue,            \* self.tx_queue: sequence of work items (generation numbers)
    result_queue,        \* self.result_queue: sequence of batch success counts
    transaction_count,   \* self.transaction_count
    current_tps,         \* self.current_tps
    peak_tps,            \* self.peak_tps
    processing_threads,  \* self.processing_threads: worker ids in start order
    ppc,                 \* Producer: position in submit_transactions
    pi,                  \* Producer: index of the for loop over the batch
    accumulated_tx,      \* Producer local
    since_batch,         \* time.time() - last_batch_time, up to BatchInterval
    since_update,        \* time.time() - last_tps_update
    actual_window,       \* current_time - last_tps_update of the batch in progress
    wpc,                 \* worker -> position in transaction_processor
    batch,               \* worker -> local batch
    mpc,                 \* main thread: position in run_benchmark / cleanup
    summary,             \* the record written to benchmark_results.json, or NoSummary
    \* history variables (no effect on the program)
    generated,           \* number of work items created by os.urandom so far
    accepted,            \* items put_nowait accepted, in acceptance order
    popped,              \* items get_nowait returned, in pop order
    batch_accepted,      \* items accepted during the batch in progress
    published,           \* sum of the success counts put on result_queue
    drained,             \* sum of the success counts taken from result_queue since the last report
    max_reported,        \* maximum of the current_tps values reported so far
    hashed,              \* items process_transaction was called on
    hash_count,          \* number of calls of process_transaction
    fail_count,          \* number of calls of process_transaction that returned False
    caught,              \* number of exceptions the `except Exception` of the loops caught
    \* the sample series of update_plot
    timestamps,          \* self.timestamps
    tps_values,          \* self.tps_values
    cpu_usage,           \* self.cpu_usage
    memory_usage,        \* self.memory_usage
    frame,               \* number of frames the animation has drawn
    \* history variables of the sampler
    sample_log,          \* series name -> every value appended to it, in order
    sample_fault         \* the read that raised in the latest sampling step, or "none"

vars == <<running, tx_queue, result_queue, transaction_count, current_tps, peak_tps,
          processing_threads, ppc, pi, accumulated_tx, since_batch, since_update,
          actual_window, wpc, batch, mpc, summary,
          generated, accepted, popped, batch_accepted, published, drained,
          max_reported, hashed, hash_count, fail_count, caught,
          timestamps, tps_values, cpu_usage, memory_usage, frame, sample_log,
          sample_fault>>

shared == <<running, tx_queue, result_queue, transaction_count, current_tps, peak_tps,
            processing_threads>>
timers == <<since_batch, since_update>>
producerVars == <<ppc, pi, accumulated_tx, actual_window>>
workerVars == <<wpc, batch>>
mainVars == <<mpc, summary>>
history == <<generated, accepted, popped, batch_accepted, published, drained,
             max_reported, hashed, hash_count, fail_count, caught>>
sampler == <<timestamps, tps_values, cpu_usage, memory_usage, frame, sample_log,
             sample_fault>>

NoSummary == [written |-> FALSE, peak_tps |-> 0, processed_transactions |-> 0]

\* the names of the four sample series
Series == {"timestamps", "tps_values", "cpu_usage", "memory_usage"}

\* nothing appended to any series yet
NoSamples == [n \in Series |-> <<>>]

\* positions of the Producer between reading current_time and stamping last_batch_time
InBatch == {"put", "full", "drain", "report", "pace"}

(* ---------------- queue.Queue ---------------- *)

QFull_late(q) == Len(q) > QueueCap

\* put_nowait raises queue.Full
QFull(q) == Len(q) >= QueueCap

\* put_nowait on a queue that is not full
QPut(q, x) == Append(q, x)

\* Queue.empty()
QEmpty(q) == Len(q) = 0

QGetItem_newest(q) == q[Len(q)]

\* the item get_nowait returns
QGetItem(q) == Head(q)

\* the queue get_nowait leaves
QGetRest(q) == Tail(q)

GetNowaitRaises_blocking(q) == FALSE

\* get_nowait raises queue.Empty at once instead of waiting for an item
GetNowaitRaises(q) == QEmpty(q)

(* ---------------- helpers ---------------- *)

Max(a, b) == IF a >= b THEN a ELSE b

Min(a, b) == IF a <= b THEN a ELSE b

TpsOf_rounded(count, window) == (2 * count * TicksPerSecond + window) \div (2 * window)

\* int(accumulated_tx / actual_window): a count per second, truncated
TpsOf(count, window) == (count * TicksPerSecond) \div window

NewPeak_latest(peak, cur) == cur

\* max(self.peak_tps, self.current_tps)
NewPeak(peak, cur) == Max(peak, cur)

ProcessorRunning_drain == running \/ tx_queue # <<>>

\* `while self.running` of transaction_processor
ProcessorRunning == running

SubmitterRunning_always == TRUE

\* `while self.running` of submit_transactions
SubmitterRunning == running

HandlerSkips_always(b) == TRUE

\* `if not batch` of the queue.Empty handler
HandlerSkips(b) == b = <<>>

\* time.time() - current_time
ProcessingTime == since_update - actual_window

ProcessorBreaks_always == TRUE

\* lines 187-188: `if not self.running: break` of the handler of transaction_processor
ProcessorBreaks == ~running

\* lines 255-256: `if not self.running: break` of the handler of submit_transactions
SubmitterBreaks == ~running

(* ---------------- initial state: after __init__ ---------------- *)

Init ==
    /\ running = TRUE
    /\ tx_queue = <<>>
    /\ result_queue = <<>>
    /\ transaction_count = 0
    /\ current_tps = 0
    /\ peak_tps = 0
    /\ processing_threads = <<>>
    /\ ppc = "notstarted"
    /\ pi = 0
    /\ accumulated_tx = 0
    /\ since_batch = 0
    /\ since_update = 0
    /\ actual_window = 0
    /\ wpc = [w \in Workers |-> "notstarted"]
    /\ batch = [w \in Workers |-> <<>>]
    /\ mpc = "run"
    /\ summary = NoSummary
    /\ generated = 0
    /\ accepted = <<>>
    /\ popped = <<>>
    /\ batch_accepted = 0
    /\ published = 0
    /\ drained = 0
    /\ max_reported = 0
    /\ hashed = {}
    /\ hash_count = 0
    /\ fail_count = 0
    /\ caught = 0
    /\ timestamps = <<>>
    /\ tps_values = <<>>
    /\ cpu_usage = <<>>
    /\ memory_usage = <<>>
    /\ frame = 0
    /\ sample_log = NoSamples
    /\ sample_fault = "none"

(* ---------------- the clock ---------------- *)

\* One tick passes.  Only the Producer reads the clock (lines 208-209 and 244-249), and
\* a tick changes nothing else, so a tick that falls anywhere between two readings is
\* taken right before the second one: at the top of the loop and at the pacing sleep.
\* since_update is exact while a batch is in progress, which may last until
\* since_update = MaxWindow.
Tick ==
    /\ ppc \in {"loop", "pace"}
    /\ ~(ppc = "pace" /\ since_update = MaxWindow)
    /\ since_batch' = IF ppc = "loop" THEN Min(since_batch + 1, BatchInterval)
                                      ELSE since_batch
    /\ since_update' = Min(since_update + 1, MaxWindow)
    /\ timers' # timers
    /\ UNCHANGED <<sampler, shared, producerVars, workerVars, mainVars, history>>

(* ---------------- Producer: submit_transactions ---------------- *)

\* lines 191-193: the locals are set when the thread starts running
P_Begin ==
    /\ ppc = "started"
    /\ since_batch' = 0
    /\ since_update' = 0
    /\ accumulated_tx' = 0
    /\ ppc' = "spawn"
    /\ UNCHANGED <<sampler, shared, pi, actual_window, workerVars, mainVars, history>>

\* lines 196-200: start one processing thread and record it
P_Spawn ==
    /\ ppc = "spawn"
    /\ Len(processing_threads) < NumThreads
    /\ LET w == Len(processing_threads) + 1 IN
         /\ wpc' = [wpc EXCEPT ![w] = "loop"]
         /\ processing_threads' = Append(processing_threads, w)
    /\ UNCHANGED <<sampler, running, tx_queue, result_queue, transaction_count, current_tps,
                   peak_tps, timers, producerVars, batch, mainVars, history>>

\* lines 202-204: all threads started
P_Spawned ==
    /\ ppc = "spawn"
    /\ Len(processing_threads) = NumThreads
    /\ ppc' = "loop"
    /\ UNCHANGED <<sampler, shared, timers, pi, accumulated_tx, actual_window, workerVars,
                   mainVars, history>>

\* line 206: the loop condition fails
P_Exit ==
    /\ ppc = "loop"
    /\ ~SubmitterRunning
    /\ ppc' = "done"
    /\ since_batch' = 0
    /\ since_update' = 0
    /\ UNCHANGED <<sampler, shared, pi, accumulated_tx, actual_window, workerVars,
                   mainVars, history>>

\* lines 206-213: the interval has elapsed, a batch begins at current_time
P_Batch ==
    /\ ppc = "loop"
    /\ SubmitterRunning
    /\ since_batch >= BatchInterval
    /\ generated + BatchSize <= MaxGen
    /\ since_update + BatchInterval <= MaxWindow
    /\ actual_window' = since_update
    /\ since_batch' = 0
    /\ pi' = 0
    /\ batch_accepted' = 0
    /\ ppc' = "put"
    /\ UNCHANGED <<sampler, shared, since_update, accumulated_tx, workerVars, mainVars,
                   generated, accepted, popped, published, drained, max_reported,
                   hashed, hash_count, fail_count, caught>>

\* lines 206-211, 250-251: the interval has not elapsed
P_Wait ==
    /\ ppc = "loop"
    /\ SubmitterRunning
    /\ since_batch < BatchInterval
    /\ ppc' = "idle"
    /\ UNCHANGED <<sampler, shared, timers, pi, accumulated_tx, actual_window, workerVars,
                   mainVars, history>>

\* line 251: time.sleep(0.0001) is over
P_Idle ==
    /\ ppc = "idle"
    /\ ppc' = "loop"
    /\ UNCHANGED <<sampler, shared, timers, pi, accumulated_tx, actual_window, workerVars,
                   mainVars, history>>

\* lines 214-218: one item is created and the queue accepts it
P_PutOk ==
    /\ ppc = "put"
    /\ pi < BatchSize
    /\ ~QFull(tx_queue)
    /\ tx_queue' = QPut(tx_queue, generated + 1)
    /\ generated' = generated + 1
    /\ accepted' = Append(accepted, generated + 1)
    /\ batch_accepted' = batch_accepted + 1
    /\ pi' = pi + 1
    /\ UNCHANGED <<sampler, running, result_queue, transaction_count, current_tps, peak_tps,
                   processing_threads, timers, ppc, accumulated_tx, actual_window,
                   workerVars, mainVars, popped, published, drained, max_reported,
                   hashed, hash_count, fail_count, caught>>

\* lines 214-219: one item is created and put_nowait raises queue.Full
P_PutFull ==
    /\ ppc = "put"
    /\ pi < BatchSize
    /\ QFull(tx_queue)
    /\ generated' = generated + 1
    /\ ppc' = "full"
    /\ UNCHANGED <<sampler, shared, timers, pi, accumulated_tx, actual_window, workerVars,
                   mainVars, accepted, popped, batch_accepted, published, drained,
                   max_reported, hashed, hash_count, fail_count, caught>>

\* lines 220-221: time.sleep(0.0001) is over; continue with the next item
P_FullSleep ==
    /\ ppc = "full"
    /\ pi' = pi + 1
    /\ ppc' = "put"
    /\ UNCHANGED <<sampler, shared, timers, accumulated_tx, actual_window, workerVars, mainVars,
                   history>>

\* lines 223-224: the for loop is over
P_Count ==
    /\ ppc = "put"
    /\ pi = BatchSize
    /\ accumulated_tx' = accumulated_tx + BatchSize
    /\ transaction_count' = transaction_count + BatchSize
    /\ pi' = 0
    /\ ppc' = "drain"
    /\ UNCHANGED <<sampler, running, tx_queue, result_queue, current_tps, peak_tps,
                   processing_threads, timers, actual_window, workerVars, mainVars,
                   history>>

\* lines 228-231: one result is taken from the result queue
P_Drain ==
    /\ ppc = "drain"
    /\ ~QEmpty(result_queue)
    /\ LET processed == QGetItem(result_queue) IN
         /\ accumulated_tx' = IF processed > 0 THEN accumulated_tx + processed
                                               ELSE accumulated_tx
         /\ drained' = drained + processed
    /\ result_queue' = QGetRest(result_queue)
    /\ UNCHANGED <<sampler, running, tx_queue, transaction_count, current_tps, peak_tps,
                   processing_threads, timers, ppc, pi, actual_window, workerVars,
                   mainVars, generated, accepted, popped, batch_accepted, published,
                   max_reported, hashed, hash_count, fail_count, caught>>

\* line 228: the result queue is empty
P_Drained ==
    /\ ppc = "drain"
    /\ QEmpty(result_queue)
    /\ ppc' = "report"
    /\ UNCHANGED <<sampler, shared, timers, pi, accumulated_tx, actual_window, workerVars,
                   mainVars, history>>

\* lines 236-241: the window is over, the TPS is reported; last_tps_update = current_time
P_Report ==
    /\ ppc = "report"
    /\ actual_window >= TpsWindow
    /\ LET tps == TpsOf(accumulated_tx, actual_window) IN
         /\ current_tps' = tps
         /\ peak_tps' = NewPeak(peak_tps, tps)
         /\ max_reported' = Max(max_reported, tps)
    /\ accumulated_tx' = 0
    /\ since_update' = ProcessingTime
    /\ actual_window' = 0
    /\ drained' = 0
    /\ ppc' = "pace"
    /\ UNCHANGED <<sampler, running, tx_queue, result_queue, transaction_count,
                   processing_threads, since_batch, pi, workerVars, mainVars,
                   generated, accepted, popped, batch_accepted, published, hashed,
                   hash_count, fail_count, caught>>

\* line 236: the window is not over
P_NoReport ==
    /\ ppc = "report"
    /\ actual_window < TpsWindow
    /\ ppc' = "pace"
    /\ UNCHANGED <<sampler, shared, timers, pi, accumulated_tx, actual_window, workerVars,
                   mainVars, history>>

\* lines 244-249: sleep for what is left of the interval, then last_batch_time = time.time()
P_Pace ==
    /\ ppc = "pace"
    /\ ProcessingTime >= BatchInterval
    /\ since_batch' = 0
    /\ actual_window' = 0
    /\ ppc' = "loop"
    /\ UNCHANGED <<sampler, shared, since_update, pi, accumulated_tx, workerVars,
                   mainVars, history>>

\* lines 207-256: a statement of the loop body raises; `except Exception` prints, then
\* breaks or goes on with the next iteration.  last_batch_time and last_tps_update keep
\* their values: inside a batch the interval had elapsed and still has.
P_Fault ==
    /\ ppc \in InBatch \cup {"idle"}
    /\ caught < MaxFaults
    /\ caught' = caught + 1
    /\ ppc' = IF SubmitterBreaks THEN "done" ELSE "loop"
    /\ since_batch' = IF SubmitterBreaks THEN 0
                      ELSE IF ppc \in InBatch THEN BatchInterval ELSE since_batch
    /\ since_update' = IF SubmitterBreaks THEN 0 ELSE since_update
    /\ pi' = 0
    /\ actual_window' = 0
    /\ UNCHANGED <<sampler, shared, accumulated_tx, workerVars, mainVars, generated,
                   accepted, popped, batch_accepted, published, drained, max_reported,
                   hashed, hash_count, fail_count>>

Producer ==
    \/ P_Begin \/ P_Spawn \/ P_Spawned \/ P_Exit \/ P_Batch \/ P_Wait \/ P_Idle
    \/ P_PutOk \/ P_PutFull \/ P_FullSleep \/ P_Count \/ P_Drain \/ P_Drained
    \/ P_Report \/ P_NoReport \/ P_Pace

(* ---------------- workers: transaction_processor ---------------- *)

\* line 169: the loop condition fails
W_Exit(w) ==
    /\ wpc[w] = "loop"
    /\ ~ProcessorRunning
    /\ wpc' = [wpc EXCEPT ![w] = "done"]
    /\ UNCHANGED <<sampler, shared, timers, producerVars, batch, mainVars, history>>

\* lines 169-172: an iteration begins with an empty batch
W_Enter(w) ==
    /\ wpc[w] = "loop"
    /\ ProcessorRunning
    /\ batch' = [batch EXCEPT ![w] = <<>>]
    /\ wpc' = [wpc EXCEPT ![w] = "check"]
    /\ UNCHANGED <<sampler, shared, timers, producerVars, mainVars, history>>

\* line 174: the queue is seen non-empty (the batch is short at this position)
W_CheckMore(w) ==
    /\ wpc[w] = "check"
    /\ Len(batch[w]) < BatchSize
    /\ ~QEmpty(tx_queue)
    /\ wpc' = [wpc EXCEPT ![w] = "get"]
    /\ UNCHANGED <<sampler, shared, timers, producerVars, batch, mainVars, history>>

\* lines 174, 182: the queue is seen empty; an empty batch ends the iteration
W_CheckStop(w) ==
    /\ wpc[w] = "check"
    /\ ~(Len(batch[w]) < BatchSize /\ ~QEmpty(tx_queue))
    /\ wpc' = [wpc EXCEPT ![w] = IF batch[w] = <<>> THEN "loop" ELSE "process"]
    /\ UNCHANGED <<sampler, shared, timers, producerVars, batch, mainVars, history>>

\* lines 174-175: get_nowait returns an item; a batch that is now complete ends the
\* inner loop without another look at the queue
W_GetOk(w) ==
    /\ wpc[w] = "get"
    /\ ~QEmpty(tx_queue)
    /\ batch' = [batch EXCEPT ![w] = Append(@, QGetItem(tx_queue))]
    /\ popped' = Append(popped, QGetItem(tx_queue))
    /\ tx_queue' = QGetRest(tx_queue)
    /\ wpc' = [wpc EXCEPT ![w] = IF Len(batch[w]) + 1 < BatchSize THEN "check"
                                                                ELSE "process"]
    /\ UNCHANGED <<sampler, running, result_queue, transaction_count, current_tps, peak_tps,
                   processing_threads, timers, producerVars, mainVars, generated,
                   accepted, batch_accepted, published, drained, max_reported,
                   hashed, hash_count, fail_count, caught>>

\* lines 175-179: get_nowait raises queue.Empty (another worker took the item)
W_GetEmpty(w) ==
    /\ wpc[w] = "get"
    /\ GetNowaitRaises(tx_queue)
    /\ wpc' = [wpc EXCEPT ![w] = IF HandlerSkips(batch[w]) THEN "sleep" ELSE "process"]
    /\ UNCHANGED <<sampler, shared, timers, producerVars, batch, mainVars, history>>

\* lines 178-179: time.sleep(0.0001) is over; continue
W_Sleep(w) ==
    /\ wpc[w] = "sleep"
    /\ wpc' = [wpc EXCEPT ![w] = "loop"]
    /\ UNCHANGED <<sampler, shared, timers, producerVars, batch, mainVars, history>>

Successes_all(results) == Len(results)

\* number of True entries of a list of results
Successes(results) == Cardinality({k \in DOMAIN results : results[k]})

\* the items of a sequence
Items(s) == {s[k] : k \in DOMAIN s}

\* lines 141-159: process_transaction gives False exactly when a digest raises
ProcessTransaction(tx, faulty) == tx \notin faulty

\* lines 161-166: process_batch, the list of the results in batch order
ProcessBatch(b, faulty) == [k \in DOMAIN b |-> ProcessTransaction(b[k], faulty)]

\* lines 182-184: the batch is hashed and the count of True is published; `faulty` are
\* the items on which a digest raises.  The batch is not read again: line 172 rebinds it.
ProcessAndPublish(w, faulty) ==
    /\ wpc[w] = "process"
    /\ LET results == ProcessBatch(batch[w], faulty) IN
         /\ result_queue' = QPut(result_queue, Successes(results))
         /\ published' = published + Successes(results)
    /\ hashed' = hashed \cup Items(batch[w])
    /\ hash_count' = hash_count + Len(batch[w])
    /\ fail_count' = fail_count + Cardinality(faulty \cap Items(batch[w]))
    /\ batch' = [batch EXCEPT ![w] = <<>>]
    /\ wpc' = [wpc EXCEPT ![w] = "loop"]
    /\ UNCHANGED <<sampler, running, tx_queue, transaction_count, current_tps, peak_tps,
                   processing_threads, timers, producerVars, mainVars, generated,
                   accepted, popped, batch_accepted, drained, max_reported, caught>>

\* no digest raises: hashlib accepts every 256-byte buffer of os.urandom
W_Process(w) == ProcessAndPublish(w, {})

\* a digest raises on some items of the batch
W_ProcessFault(w) ==
    \E faulty \in SUBSET Items(batch[w]) : faulty # {} /\ ProcessAndPublish(w, faulty)

\* lines 170-188: a statement of the loop body raises; `except Exception` prints, then
\* breaks or goes on with the next iteration, which rebinds batch: what it held is dropped
W_Fault(w) ==
    /\ wpc[w] \in {"check", "get", "sleep", "process"}
    /\ caught < MaxFaults
    /\ caught' = caught + 1
    /\ wpc' = [wpc EXCEPT ![w] = IF ProcessorBreaks THEN "done" ELSE "loop"]
    /\ batch' = [batch EXCEPT ![w] = <<>>]
    /\ UNCHANGED <<sampler, shared, timers, producerVars, mainVars, generated,
                   accepted, popped, batch_accepted, published, drained, max_reported,
                   hashed, hash_count, fail_count>>

Worker(w) ==
    \/ W_Exit(w) \/ W_Enter(w) \/ W_CheckMore(w) \/ W_CheckStop(w) \/ W_GetOk(w)
    \/ W_GetEmpty(w) \/ W_Sleep(w) \/ W_Process(w)

(* ---------------- main thread: run_benchmark, SIGINT, cleanup ---------------- *)

\* lines 265-267: the Producer thread is started
M_Start ==
    /\ mpc = "run"
    /\ ppc' = "started"
    /\ mpc' = "show"
    /\ UNCHANGED <<sampler, shared, timers, pi, accumulated_tx, actual_window, workerVars,
                   summary, history>>

\* lines 71-73, 293-295: SIGINT before tx_thread exists
M_SignalEarly ==
    /\ mpc = "run"
    /\ running
    /\ running' = FALSE
    /\ UNCHANGED <<sampler, tx_queue, result_queue, transaction_count, current_tps, peak_tps,
                   processing_threads, timers, producerVars, workerVars, mainVars,
                   history>>

\* lines 71-73, 293-296: SIGINT while the window is shown; the handler clears the flag
\* and its tx_thread.join(timeout=1.0) returns, the thread done or the timeout over
M_Signal ==
    /\ mpc = "show"
    /\ running
    /\ running' = FALSE
    /\ UNCHANGED <<sampler, tx_queue, result_queue, transaction_count, current_tps, peak_tps,
                   processing_threads, timers, producerVars, workerVars, mainVars,
                   history>>

\* lines 280-301: plt.show() returns, the window was closed; cleanup clears the flag
M_Close ==
    /\ mpc = "show"
    /\ running' = FALSE
    /\ mpc' = "join"
    /\ UNCHANGED <<sampler, tx_queue, result_queue, transaction_count, current_tps, peak_tps,
                   processing_threads, timers, producerVars, workerVars, summary,
                   history>>

\* line 305: thread.join(timeout=1.0) returns, the thread done or the timeout over
JoinReturns(t) == \E timed_out \in BOOLEAN : wpc[t] = "done" \/ timed_out

\* lines 304-320: every thread of processing_threads is joined, then the summary is
\* written
M_Save ==
    /\ mpc = "join"
    /\ \A k \in DOMAIN processing_threads : JoinReturns(processing_threads[k])
    /\ summary' = [written |-> TRUE, peak_tps |-> peak_tps,
                   processed_transactions |-> transaction_count]
    /\ mpc' = "stopped"
    /\ UNCHANGED <<sampler, shared, timers, producerVars, workerVars, history>>

\* the steps of the main thread that need no outside event
MainSteps ==
    \/ M_Start \/ M_Save

\* the outside events: SIGINT, closing the window
MainEvents ==
    \/ M_SignalEarly \/ M_Signal \/ M_Close

(* ---------------- the sampler: update_plot ---------------- *)

DequeAppend_keepoldest(d, x) == IF Len(d) < MaxPoints THEN Append(d, x) ELSE d

\* deque(maxlen=self.max_points).append(x): a full deque drops its leftmost entry
DequeAppend(d, x) == IF Len(d) < MaxPoints THEN Append(d, x) ELSE Append(Tail(d), x)

\* the value of the series of a name
SeriesValue(n) ==
    CASE n = "timestamps" -> timestamps
      [] n = "tps_values" -> tps_values
      [] n = "cpu_usage" -> cpu_usage
      [] n = "memory_usage" -> memory_usage

\* lines 97-139: one frame of the animation.  The four appends run in order; a psutil
\* read that raises ends the step in `except Exception`, which prints and returns: the
\* appends already made stay, the later ones are not made.  The frames are drawn while
\* plt.show() runs and generate_time (line 289) finds self.running set.
U_Sample ==
    /\ mpc = "show"
    /\ running
    /\ frame < MaxFrames
    /\ \E cpu \in CpuReadings \cup {Raises}, mem \in MemReadings \cup {Raises} :
         LET current_time == frame + 1
             cpu_done == cpu # Raises
             mem_done == cpu_done /\ mem # Raises
         IN
         /\ timestamps' = DequeAppend(timestamps, current_time)
         /\ tps_values' = DequeAppend(tps_values, current_tps)
         /\ cpu_usage' = IF cpu_done THEN DequeAppend(cpu_usage, cpu) ELSE cpu_usage
         /\ memory_usage' = IF mem_done THEN DequeAppend(memory_usage, mem)
                                        ELSE memory_usage
         /\ sample_log' =
              [n \in Series |->
                 CASE n = "timestamps" -> Append(sample_log[n], current_time)
                   [] n = "tps_values" -> Append(sample_log[n], current_tps)
                   [] n = "cpu_usage" -> IF cpu_done THEN Append(sample_log[n], cpu)
                                                     ELSE sample_log[n]
                   [] n = "memory_usage" -> IF mem_done THEN Append(sample_log[n], mem)
                                                        ELSE sample_log[n]]
         /\ sample_fault' = IF ~cpu_done THEN "cpu" ELSE IF ~mem_done THEN "mem"
                                                                     ELSE "none"
    /\ frame' = frame + 1
    /\ UNCHANGED <<shared, timers, producerVars, workerVars, mainVars, history>>

\* lines 238-239 as update_plot sees them: between two frames the Producer stores
\* another current_tps
S_TpsStored ==
    /\ ppc # "notstarted"
    /\ running
    /\ \E tps \in TpsReadings \ {current_tps} :
         /\ current_tps' = tps
         /\ peak_tps' = NewPeak(peak_tps, tps)
    /\ UNCHANGED <<sampler, running, tx_queue, result_queue, transaction_count,
                   processing_threads, timers, producerVars, workerVars, mainVars,
                   history>>

(* ---------------- specifications ---------------- *)

Next ==
    \/ Tick
    \/ Producer
    \/ \E w \in Workers : Worker(w)
    \/ MainSteps
    \/ MainEvents

Spec == Init /\ [][Next]_vars

\* every thread that can take a step is scheduled again; time passes
Fairness ==
    /\ WF_vars(Tick)
    /\ WF_vars(Producer)
    /\ \A w \in Workers : WF_vars(Worker(w))
    /\ WF_vars(MainSteps)

FairSpec == Spec /\ Fairness

\* the pipeline with digests that may raise
HashFaultNext ==
    \/ Next
    \/ \E w \in Workers : W_ProcessFault(w)

HashFaultSpec == Init /\ [][HashFaultNext]_vars

\* the pipeline with faults anywhere in the loop bodies of the threads
FaultNext ==
    \/ Next
    \/ P_Fault
    \/ \E w \in Workers : W_Fault(w)

FaultSpec == Init /\ [][FaultNext]_vars

\* the Producer at the test of line 236, the batch counted and the results drained, for any
\* accumulated count and any window
ReportInit ==
    /\ running = TRUE
    /\ tx_queue = <<>>
    /\ result_queue = <<>>
    /\ transaction_count = BatchSize
    /\ current_tps = 0
    /\ peak_tps = 0
    /\ processing_threads = [k \in 1..NumThreads |-> k]
    /\ ppc = "report"
    /\ pi = 0
    /\ accumulated_tx \in BatchSize..MaxCount
    /\ since_batch = 0
    /\ actual_window \in 1..MaxReportWindow
    /\ since_update = actual_window
    /\ wpc = [w \in Workers |-> "loop"]
    /\ batch = [w \in Workers |-> <<>>]
    /\ mpc = "show"
    /\ summary = NoSummary
    /\ generated = BatchSize
    /\ accepted = [k \in 1..BatchSize |-> k]
    /\ popped = accepted
    /\ batch_accepted = BatchSize
    /\ published = accumulated_tx - BatchSize
    /\ drained = accumulated_tx - BatchSize
    /\ max_reported = 0
    /\ hashed = 1..BatchSize
    /\ hash_count = BatchSize
    /\ fail_count = 0
    /\ caught = 0
    /\ timestamps = <<>>
    /\ tps_values = <<>>
    /\ cpu_usage = <<>>
    /\ memory_usage = <<>>
    /\ frame = 0
    /\ sample_log = NoSamples
    /\ sample_fault = "none"

\* lines 236-249: the report and the pacing sleep that follows it
ReportNext ==
    \/ Tick
    \/ P_Report
    \/ P_NoReport
    \/ P_Pace

ReportSpec == ReportInit /\ [][ReportNext]_vars

\* the main thread drawing frames, the pipeline reduced to its stores to current_tps
SamplerNext ==
    \/ M_Start
    \/ M_Signal
    \/ S_TpsStored
    \/ U_Sample

SamplerSpec == Init /\ [][SamplerNext]_vars

TypeOK ==
    /\ running \in BOOLEAN
    /\ since_update \in 0..MaxWindow
    /\ generated \in 0..MaxGen

(* ---------------- properties ---------------- *)

AllDone == ppc = "done" /\ \A w \in Workers : wpc[w] = "done"

\* C1: under every interleaving of put_nowait and get_nowait, the accepted items are
\* exactly the popped items followed by the queued ones, in acceptance order (nothing
\* lost, nothing popped twice, FIFO), and no item is in the batch of two workers.
C1_FifoNoLossNoDup ==
    /\ accepted = popped \o tx_queue
    /\ \A i, j \in DOMAIN popped : i < j => popped[i] < popped[j]
    /\ \A v, w \in Workers : v # w => Items(batch[v]) \cap Items(batch[w]) = {}
    /\ \A w \in Workers : Items(batch[w]) \subseteq Items(popped)

C1_Witness ==
    /\ Len(tx_queue) = 2
    /\ batch[1] # <<>>
    /\ batch[2] # <<>>

\* C2: tx_queue never holds more than QueueCap items; a put_nowait on a full queue
\* leaves the queue as it was, and the Producer can always take its next step (the
\* rejected put does not block it).
C2_BoundedNonBlockingPut ==
    /\ [](Len(tx_queue) <= QueueCap)
    /\ [](ppc \in {"put", "full"} => ENABLED Producer)
    /\ [][(ppc = "put" /\ Len(tx_queue) = QueueCap /\ generated' # generated)
            => (tx_queue' = tx_queue /\ accepted' = accepted /\ ppc' = "full")]_vars

C2_Witness == ppc = "full" /\ Len(tx_queue) = QueueCap

\* C3: when a batch submission ends, accumulated_tx and transaction_count have grown by
\* no more than the number of items the queue accepted in that batch.
C3_CountsOnlyAccepted ==
    [][(ppc = "put" /\ ppc' = "drain")
         => (/\ transaction_count' - transaction_count <= batch_accepted
             /\ accumulated_tx' - accumulated_tx <= batch_accepted)]_vars

\* C4: at a TPS report the count that is divided by the window is the sum of the batch
\* success counts drained from result_queue since the previous report.
C4_ReportCountsCompletions ==
    (ppc = "report" /\ actual_window >= TpsWindow) => accumulated_tx = drained

\* C5: the processed_transactions written to the summary is the sum of the published
\* batch success counts, and exceeds neither the items generated nor the items accepted.
C5_SummaryCountsProcessed ==
    [][summary' # summary
         => (/\ summary'.processed_transactions = published
             /\ summary'.processed_transactions <= generated
             /\ summary'.processed_transactions <= Len(accepted))]_vars

\* C6: peak_tps is the maximum of the current_tps values reported so far (0 if none) and
\* never decreases.
C6_PeakIsMaxOfReports ==
    /\ [](peak_tps = max_reported)
    /\ [][peak_tps' >= peak_tps]_vars

C6_Witness == max_reported > current_tps /\ current_tps > 0

\* the grace period (the joins with a timeout in cleanup) is over
GraceOver == mpc = "stopped"

\* C7 as stated: after the flag is set a worker exits only when tx_queue is empty or the
\* grace period is over.
C7_WorkersDrainQueue ==
    [][\A w \in Workers :
         (wpc[w] # "done" /\ wpc'[w] = "done") => (tx_queue = <<>> \/ GraceOver)]_vars

\* C7 amended: once the flag is set, a worker at the top of its loop starts no other
\* batch and exits, whether or not tx_queue is empty; a worker that has exited saw the
\* flag set and has hashed and published every item it popped.
C7_WorkersFinishBatchOnly ==
    /\ [][\A w \in Workers :
            (~running /\ wpc[w] = "loop") => wpc'[w] \in {"loop", "done"}]_vars
    /\ [](\A w \in Workers :
            wpc[w] = "done" => (~running /\ batch[w] = <<>>))
    /\ [](AllDone => Items(popped) = hashed)

C7_Witness ==
    /\ wpc[1] = "done"
    /\ tx_queue # <<>>
    /\ hashed # {}
    /\ mpc = "show"

\* C8: once the flag is set, the Producer and every worker eventually terminate.
C8_ShutdownTerminates == (~running) ~> AllDone

C8_Witness == AllDone /\ tx_queue # <<>> /\ result_queue # <<>>

\* C9: once cleanup has written the summary, neither the Producer thread nor any worker
\* thread is still running.
C9_NoThreadAfterTeardown ==
    summary.written =>
        /\ ppc \in {"notstarted", "done"}
        /\ \A w \in Workers : wpc[w] \in {"notstarted", "done"}

\* C10 as stated: once the flag is set, no item is pushed into tx_queue and
\* transaction_count does not increase.
C10_NoWorkAfterFlag ==
    [][~running => (accepted' = accepted /\ transaction_count' = transaction_count)]_vars

\* C10 amended: once the flag is set, the Producer starts no new batch: outside a batch
\* in progress it creates and pushes no item and leaves transaction_count as it is, and
\* the batch in progress adds batch_size to transaction_count once.
C10_NoNewBatchAfterFlag ==
    /\ [][(~running /\ ppc \notin InBatch)
            => (/\ ppc' \notin InBatch
                /\ generated' = generated
                /\ accepted' = accepted
                /\ transaction_count' = transaction_count)]_vars
    /\ [][transaction_count' # transaction_count
            => (/\ ppc = "put" /\ ppc' = "drain"
                /\ transaction_count' = transaction_count + BatchSize)]_vars

C10_Witness == ~running /\ ppc = "done" /\ transaction_count = 2 * BatchSize

\* C11: while the flag is not set, neither the Producer nor a worker has terminated, also
\* after an iteration of its loop raised: the exception is caught and, the flag not set,
\* the thread that raised is back at the top of its loop.
C11_FaultsDoNotTerminate ==
    /\ []((ppc = "done" \/ \E w \in Workers : wpc[w] = "done") => ~running)
    /\ [][(caught' # caught /\ running)
            => \/ ppc' # ppc /\ ppc' = "loop"
               \/ \E w \in Workers : wpc'[w] # wpc[w] /\ wpc'[w] = "loop"]_vars

C11_Witness ==
    /\ caught > 0
    /\ running
    /\ ppc = "put"
    /\ \A w \in Workers : wpc[w] \in {"check", "get", "process"}

\* the last c entries of a sequence, all of them if it has fewer
LastOf(s, c) == SubSeq(s, Max(1, Len(s) - c + 1), Len(s))

\* C12: every sample series holds at most MaxPoints entries, and they are the latest
\* min(k, MaxPoints) of the k values appended to it, in the order they were appended (a
\* full series has dropped exactly its oldest entries).
C12_SeriesKeepNewest ==
    \A n \in Series :
        /\ Len(SeriesValue(n)) <= MaxPoints
        /\ SeriesValue(n) = LastOf(sample_log[n], MaxPoints)

C12_Witness ==
    /\ Len(sample_log["cpu_usage"]) > MaxPoints
    /\ cpu_usage[1] # cpu_usage[2]
    /\ tps_values[1] # tps_values[2]

\* C13 as stated: the current_tps a report stores is the accumulated count divided by the
\* window (at least TpsWindow), rounded to the nearest integer.
C13_ReportRounds ==
    [][(ppc = "report" /\ ppc' = "pace" /\ actual_window >= TpsWindow)
         => current_tps' = TpsOf_rounded(accumulated_tx, actual_window)]_vars

\* C13 amended: the current_tps a report stores is the accumulated count divided by the
\* window, truncated: the largest integer that is not above the quotient.
C13_ReportTruncates ==
    [][(ppc = "report" /\ ppc' = "pace" /\ actual_window >= TpsWindow)
         => /\ current_tps' * actual_window <= accumulated_tx * TicksPerSecond
            /\ accumulated_tx * TicksPerSecond < (current_tps' + 1) * actual_window]_vars

\* a count of 4 over a window of 3 ticks was reported: the quotient 26.67 is stored as 26
C13_Witness ==
    /\ ppc = "pace"
    /\ current_tps = TpsOf(4, 3)
    /\ current_tps # TpsOf_rounded(4, 3)

\* the items the workers hold in their batches
InBatches == UNION {Items(batch[w]) : w \in Workers}

\* C14: every popped item is in the batch of exactly one worker or has been hashed, and
\* hashed once; a batch has at most BatchSize items and at least one when it is hashed; the
\* count published for it is between 0 and its length; a worker whose get_nowait finds the
\* queue emptied by another worker keeps the items it holds and goes on to hash them; when
\* all threads are done every popped item has been hashed.
C14_PoppedHashedOnce ==
    /\ [](/\ Items(popped) = hashed \cup InBatches
          /\ hashed \cap InBatches = {}
          /\ \A v, w \in Workers : v # w => Items(batch[v]) \cap Items(batch[w]) = {}
          /\ hash_count = Cardinality(hashed)
          /\ \A w \in Workers :
                /\ Len(batch[w]) <= BatchSize
                /\ wpc[w] = "process" => Len(batch[w]) >= 1)
    /\ [][\A w \in Workers :
            (wpc[w] = "process" /\ wpc'[w] # "process")
                => /\ result_queue' = Append(result_queue, published' - published)
                   /\ published' - published \in 0..Len(batch[w])
                   /\ hashed' = hashed \cup Items(batch[w])]_vars
    /\ [][\A w \in Workers :
            (wpc[w] = "get" /\ tx_queue = <<>> /\ batch[w] # <<>> /\ wpc'[w] # "get")
                => (wpc'[w] = "process" /\ batch'[w] = batch[w])]_vars
    /\ [](AllDone => Items(popped) = hashed)

C14_Witness ==
    /\ wpc[1] = "process"
    /\ Len(batch[1]) = 1
    /\ wpc[2] = "loop"
    /\ result_queue = <<0>>
    /\ Cardinality(hashed) = 1
    /\ tx_queue = <<>>
    /\ generated = 2

\* C15: a worker that finds the queue empty with nothing collected sleeps before it reads
\* the queue again.
C15_SleepsAfterEmptyPoll ==
    [][\A w \in Workers :
         (wpc[w] = "check" /\ batch[w] = <<>> /\ QEmpty(tx_queue) /\ wpc'[w] # wpc[w])
             => wpc'[w] = "sleep"]_vars

\* C16: the next batch starts one BatchInterval after the start of a batch that took no
\* longer than that: when its pacing sleep ends, BatchInterval after its start, the next
\* batch is due, that is the elapsed time the Producer compares with the interval
\* (since_batch) has reached it.
C16_NextBatchDueAfterPacing ==
    [][(ppc = "pace" /\ ppc' = "loop" /\ ProcessingTime = BatchInterval)
         => since_batch' >= BatchInterval]_vars

\* C17: when the pipeline has stopped (the Producer and every worker done), no published
\* success count is left in result_queue: each one was taken by the Producer.
C17_NoResultLeftBehind == AllDone => result_queue = <<>>

\* C18: when a worker has hashed a batch, every item of the batch was passed to
\* process_transaction, items on which a digest raised included, the count it publishes
\* is the length of the batch minus the number of items that failed, and the worker goes
\* on with its loop; so the published counts add up to the calls that succeeded.
C18_FaultIsolatedToItem ==
    /\ [][\A w \in Workers :
            (wpc[w] = "process" /\ wpc'[w] # "process")
                => /\ hashed' = hashed \cup Items(batch[w])
                   /\ hash_count' = hash_count + Len(batch[w])
                   /\ fail_count' - fail_count \in 0..Len(batch[w])
                   /\ result_queue' = Append(result_queue,
                                              Len(batch[w]) - (fail_count' - fail_count))
                   /\ wpc'[w] = "loop"]_vars
    /\ [](published = hash_count - fail_count)

\* the first batch published: two items hashed, one of them failed, the count is 1
C18_Witness ==
    /\ result_queue = <<1>>
    /\ hash_count = 2
    /\ fail_count = 1
    /\ transaction_count = 0

\* the last entry of a non-empty sequence
Last(s) == s[Len(s)]

\* the value appended to the series of a name in this step is the one appended before it
RepeatsPrevious(n) ==
    sample_log[n] # <<>> => Last(sample_log'[n]) = Last(sample_log[n])

\* C19: every sampling step appends one value to each of the four series, also when a
\* psutil read raised in it; the cpu and memory values appended after a failed read are
\* those of the previous sample; and after a failed read the next frame is still drawn.
C19_FailedReadRepeatsPrevious ==
    /\ [][frame' # frame
            => /\ \A n \in Series : Len(sample_log'[n]) = Len(sample_log[n]) + 1
               /\ sample_fault' = "cpu" => RepeatsPrevious("cpu_usage")
               /\ sample_fault' \in {"cpu", "mem"} => RepeatsPrevious("memory_usage")]_vars
    /\ []((sample_fault # "none" /\ mpc = "show" /\ running /\ frame < MaxFrames)
            => ENABLED U_Sample)

\* C20: the four sample series always have the same length.
C20_SeriesSameLength ==
    /\ Len(tps_values) = Len(timestamps)
    /\ Len(cpu_usage) = Len(timestamps)
    /\ Len(memory_usage) = Len(timestamps)

====
